---- MODULE Spec2Model ----
(***************************************************************************)
(* A model of the search core of fast-file (src/src/search.rs) together    *)
(* with the configuration helpers it calls (src/src/config.rs).            *)
(*                                                                         *)
(* Strings are sequences of one-character strings, an Option<T> is a       *)
(* sequence of length 0 (None) or 1 (Some(v)), a path is the index of its  *)
(* entry in Tree, the directory tree in the order WalkDir yields it.       *)
(***************************************************************************)
EXTENDS Integers, Sequences, FiniteSets, TLC

VARIABLES
    executor,        \* "seq": search_files, "par": search_files_parallel
    args,            \* the arguments of the call and config.max_files_per_search
    outcome,         \* what matching each entry of Tree gives under args (the
                     \* tree does not change during the call)
    pc,              \* position of the calling thread
    handler,         \* TRUE once ctrlc::set_handler has registered the handler
    running,         \* Arc<AtomicBool> running, the cancellation flag
    walker_pos,      \* index in Tree of the next entry the walker looks at
    current,         \* search_files: the entry the for loop holds (0: none)
    results,         \* the Vec<SearchResult> accumulated / collected
    scanned,         \* search_files: the locals files_scanned, dirs_scanned
    all_paths,       \* search_files_parallel: phase-1 candidate list
    task,            \* phase 2: position of the closure of each candidate
    task_out,        \* phase 2: the Option<SearchResult> each closure returned
    counters,        \* the four AtomicUsize progress counters
    processing_complete, \* Arc<AtomicBool> processing_complete
    progress,        \* position of the progress thread
    previous,        \* what the previous call of this process returned (None
                     \* during the first call)
    calls            \* the calls of get_best_match_score made on their own

\* what a call is given, and what the process keeps besides the call
call_inputs == <<executor, args, outcome>>
history == <<previous, calls>>

vars == <<call_inputs, history, pc, handler, running, walker_pos, current, results,
          scanned, all_paths, task, task_out, counters, processing_complete,
          progress>>

-----------------------------------------------------------------------------
(* Bounds of the model *)

MaxLimit == 3
MaxFilesBound == 5
Threads == 2
MaxCalls == 2

-----------------------------------------------------------------------------
(* Strings *)

None == <<>>
Some(v) == <<v>>
IsSome(o) == Len(o) = 1
unwrap_or(o, d) == IF Len(o) = 1 THEN o[1] ELSE d

UpperChars == <<"A","B","C","D","E","F","G","H","I","J","K","L","M",
                "N","O","P","Q","R","S","T","U","V","W","X","Y","Z">>
LowerChars == <<"a","b","c","d","e","f","g","h","i","j","k","l","m",
                "n","o","p","q","r","s","t","u","v","w","x","y","z">>

LowerChar(c) ==
    IF \E i \in 1..Len(UpperChars) : UpperChars[i] = c
    THEN LowerChars[CHOOSE i \in 1..Len(UpperChars) : UpperChars[i] = c]
    ELSE c

to_lowercase(s) == [i \in 1..Len(s) |-> LowerChar(s[i])]

\* s[start..] for a 0-based byte offset start
SliceFrom(s, start) == SubSeq(s, start + 1, Len(s))

starts_with(h, n) == Len(n) <= Len(h) /\ SubSeq(h, 1, Len(n)) = n

ends_with(h, n) == Len(n) <= Len(h) /\ SubSeq(h, Len(h) - Len(n) + 1, Len(h)) = n

\* str::find: 0-based offset of the first occurrence, None when absent
find(h, n) ==
    LET hits == {i \in 0..(Len(h) - Len(n)) : SubSeq(h, i + 1, i + Len(n)) = n}
    IN  IF hits = {} THEN None
        ELSE Some(CHOOSE i \in hits : \A j \in hits : i <= j)

contains(h, n) == IsSome(find(h, n))

\* whether the characters of n appear in h in order (not necessarily adjacent)
RECURSIVE IsSubsequence(_, _)
IsSubsequence(h, n) ==
    IF n = <<>> THEN TRUE
    ELSE IF h = <<>> THEN FALSE
    ELSE IF h[1] = n[1] THEN IsSubsequence(Tail(h), Tail(n))
    ELSE IsSubsequence(Tail(h), n)

Min(a, b) == IF a <= b THEN a ELSE b

\* A str is UTF-8: a character outside ASCII takes more than one byte. "e~"
\* stands for such a character, of two bytes; every other character of the
\* model is ASCII.
WideChars == {"e~"}

Width(c) == IF c \in WideChars THEN 2 ELSE 1

\* the bytes of a str: <<c, k>> is byte k of character c
RECURSIVE Utf8(_)
Utf8(s) ==
    IF s = <<>> THEN <<>>
    ELSE [k \in 1..Width(Head(s)) |-> <<Head(s), k>>] \o Utf8(Tail(s))

\* str::is_char_boundary for a 0-based byte offset
is_char_boundary(bytes, index) ==
    \/ index = 0 \/ index = Len(bytes)
    \/ index < Len(bytes) /\ bytes[index + 1][2] = 1

RECURSIVE MaxOf(_)
MaxOf(s) ==
    IF Len(s) = 1 THEN s[1]
    ELSE LET m == MaxOf(Tail(s)) IN IF s[1] >= m THEN s[1] ELSE m

-----------------------------------------------------------------------------
(* The inputs: patterns, configuration and directory tree *)

FilenamePattern == <<"t","e","s","t">>
ContentPattern == <<"f","o","o">>

\* A Config value as load_with_safeguard hands it to the core. Its
\* max_files_per_search is drawn per run (args.max_files_per_search).
config ==
    [ignore_directories |-> << <<".","g","i","t">>, <<"t","a","r","g","e","t">> >>,
     ignore_file_patterns |-> << <<"*",".","l","o","g">>,
                                 <<"t","h","u","m","b","s",".","d","b">> >>,
     max_file_size_mb |-> 1,
     include_hidden |-> FALSE,
     content_search_extensions |-> << <<".","r","s">>, <<".","m","d">> >>]

SizeCeiling == config.max_file_size_mb * 1024 * 1024

\* A directory tree in the order WalkDir yields it (pre-order); the search
\* root of a call is one of its directories (SearchRoots). depth 0 is the
\* directory "test".
\* len is metadata.len(); lines is the text of a file; open_ok is whether
\* File::open succeeds; bad_line is the 1-based line whose decoding fails, or
\* 0; skim is the score SkimMatcherV2 gives the name for FilenamePattern when
\* the pattern is a subsequence of it.
Tree ==
    << [name |-> <<"t","e","s","t">>, depth |-> 0, is_dir |-> TRUE, len |-> 0,
        lines |-> <<>>, open_ok |-> FALSE, bad_line |-> 0, skim |-> 92],
       [name |-> <<"a","b",".","m","d">>, depth |-> 1, is_dir |-> FALSE, len |-> 12,
        lines |-> << <<"x">>, <<"f","o","o","F","O","O">> >>,
        open_ok |-> TRUE, bad_line |-> 0, skim |-> 0],
       [name |-> <<".","g","i","t">>, depth |-> 1, is_dir |-> TRUE, len |-> 0,
        lines |-> <<>>, open_ok |-> FALSE, bad_line |-> 0, skim |-> 0],
       [name |-> <<"t","e","s","t","s",".","m","d">>, depth |-> 2, is_dir |-> FALSE,
        len |-> 3, lines |-> << <<"f","o","o">> >>,
        open_ok |-> TRUE, bad_line |-> 0, skim |-> 90],
       [name |-> <<".","t","e","s","t",".","m","d">>, depth |-> 1, is_dir |-> FALSE,
        len |-> 5, lines |-> << <<"f","o","o">>, <<"x">> >>,
        open_ok |-> TRUE, bad_line |-> 2, skim |-> 85],
       [name |-> <<"t","e","_","s","t",".","b","i","n">>, depth |-> 1,
        is_dir |-> FALSE, len |-> 3, lines |-> << <<"f","o","o">> >>,
        open_ok |-> TRUE, bad_line |-> 0, skim |-> 70],
       [name |-> <<"T","e","s","t",".","r","s">>, depth |-> 1, is_dir |-> FALSE,
        len |-> SizeCeiling, lines |-> << <<"a"," ","F","o","o">>, <<"b">> >>,
        open_ok |-> TRUE, bad_line |-> 0, skim |-> 90],
       [name |-> <<"t","e","s","t",".","m","d">>, depth |-> 1, is_dir |-> FALSE,
        len |-> SizeCeiling + 1, lines |-> << <<"f","o","o">> >>,
        open_ok |-> TRUE, bad_line |-> 0, skim |-> 92] >>

Paths == 1..Len(Tree)

\* the directories a call may be given as search_path: "test" and, inside
\* it, ".git"
SearchRoots == {1, 3}

\* the first index after the subtree of entry i (WalkDir::skip_current_dir)
AfterSubtree(i) ==
    LET later == {j \in Paths : j > i /\ Tree[j].depth <= Tree[i].depth}
    IN  IF later = {} THEN Len(Tree) + 1
        ELSE CHOOSE j \in later : \A k \in later : j <= k

-----------------------------------------------------------------------------
(* src/src/config.rs *)

should_ignore_directory(dir_name) ==
    \E k \in 1..Len(config.ignore_directories) :
        contains(dir_name, config.ignore_directories[k])

should_ignore_file(file_name) ==
    \E k \in 1..Len(config.ignore_file_patterns) :
        LET pattern == config.ignore_file_patterns[k]
        IN  IF starts_with(pattern, <<"*", ".">>)
            THEN ends_with(file_name, SliceFrom(pattern, 2))
            ELSE contains(file_name, pattern)

\* Path::extension: the part after the last '.', None when there is no '.'
\* or the only '.' is the first character
extension(name) ==
    LET dots == {i \in 2..Len(name) : name[i] = "."}
    IN  IF dots = {} THEN None
        ELSE Some(SliceFrom(name, CHOOSE i \in dots : \A j \in dots : j <= i))

KnownBasenames ==
    { <<"R","E","A","D","M","E">>, <<"M","a","k","e","f","i","l","e">>,
      <<"D","o","c","k","e","r","f","i","l","e">>, <<"L","I","C","E","N","S","E">> }

is_content_searchable(name) ==
    LET ext == extension(name)
    IN  IF IsSome(ext)
        THEN LET ext_with_dot == <<".">> \o ext[1]
             IN  \E k \in 1..Len(config.content_search_extensions) :
                    config.content_search_extensions[k] = ext_with_dot
        ELSE name \in KnownBasenames

-----------------------------------------------------------------------------
(* src/src/search.rs: matching *)

ExactScore == 100
PrefixScore == 150
ContentScore == 100
HybridContentBonus == 50

\* SkimMatcherV2::default().fuzzy_match(choice, pattern): Some(score) exactly
\* when the pattern is a subsequence of the choice; case is ignored unless
\* the pattern holds an upper-case character (smart case). The score is the
\* library's, given here as the argument skim.
fuzzy_match(choice, pattern, skim) ==
    LET sensitive == pattern /= to_lowercase(pattern)
        c == IF sensitive THEN choice ELSE to_lowercase(choice)
    IN  IF IsSubsequence(c, pattern) THEN Some(skim) ELSE None

get_best_match_score(filename, pattern, skim, match_mode) ==
    IF match_mode = "Fuzzy"
    THEN LET fuzzy_score == fuzzy_match(filename, pattern, skim)
             exact_score ==
                 IF contains(to_lowercase(filename), to_lowercase(pattern))
                 THEN Some(ExactScore) ELSE None
             prefix_score ==
                 IF starts_with(to_lowercase(filename), to_lowercase(pattern))
                 THEN Some(PrefixScore) ELSE None
             present == fuzzy_score \o exact_score \o prefix_score
         IN  IF present = <<>> THEN None ELSE Some(MaxOf(present))
    ELSE IF contains(to_lowercase(filename), to_lowercase(pattern))
         THEN Some(ExactScore) ELSE None

\* ScanLine moving the cursor past the whole occurrence and one byte more
RECURSIVE ScanLineSkipsPastMatch(_, _, _, _)
ScanLineSkipsPastMatch(line_lower, pattern, start, line_num) ==
    LET bytes == Utf8(line_lower)
        pattern_lower == Utf8(to_lowercase(pattern))
    IN  IF start > Len(bytes) \/ ~is_char_boundary(bytes, start)
        THEN [matches |-> <<>>, panicked |-> TRUE, cursors |-> <<start>>]
        ELSE LET pos == find(SliceFrom(bytes, start), pattern_lower)
             IN  IF pos = None
                 THEN [matches |-> <<>>, panicked |-> FALSE, cursors |-> <<start>>]
                 ELSE LET actual_pos == start + pos[1]
                          rest == ScanLineSkipsPastMatch(line_lower, pattern,
                                      actual_pos + Len(pattern_lower) + 1, line_num)
                      IN  [matches |->
                               << [line_number |-> line_num + 1,
                                   match_start |-> actual_pos,
                                   match_end |-> actual_pos + Len(Utf8(pattern))] >>
                               \o rest.matches,
                           panicked |-> rest.panicked,
                           cursors |-> <<start>> \o rest.cursors]

\* the while-let loop of search_file_content over one line, from cursor
\* start. find gives byte offsets; line_lower[start..] panics when start is
\* beyond the end of the line or not on a character boundary. cursors are the
\* values of start with which the line is sliced, one per iteration.
RECURSIVE ScanLine(_, _, _, _)
ScanLine(line_lower, pattern, start, line_num) ==
    LET bytes == Utf8(line_lower)
        pattern_lower == Utf8(to_lowercase(pattern))
    IN  IF start > Len(bytes) \/ ~is_char_boundary(bytes, start)
        THEN [matches |-> <<>>, panicked |-> TRUE, cursors |-> <<start>>]
        ELSE LET pos == find(SliceFrom(bytes, start), pattern_lower)
             IN  IF pos = None
                 THEN [matches |-> <<>>, panicked |-> FALSE, cursors |-> <<start>>]
                 ELSE LET actual_pos == start + pos[1]
                          rest == ScanLine(line_lower, pattern, actual_pos + 1,
                                           line_num)
                      IN  [matches |->
                               << [line_number |-> line_num + 1,
                                   match_start |-> actual_pos,
                                   match_end |-> actual_pos + Len(Utf8(pattern))] >>
                               \o rest.matches,
                           panicked |-> rest.panicked,
                           cursors |-> <<start>> \o rest.cursors]

\* LineMatches recording a line that only the subsequence test accepts
LineMatchesFuzzyRecordsLine(line, pattern, match_mode, line_num) ==
    LET pattern_lower == to_lowercase(pattern)
        line_lower == to_lowercase(line)
    IN  IF contains(line_lower, pattern_lower)
        THEN ScanLine(line_lower, pattern, 0, line_num)
        ELSE IF match_mode = "Fuzzy" /\ IsSome(fuzzy_match(line, pattern, 1))
        THEN [matches |-> << [line_number |-> line_num + 1, match_start |-> 0,
                              match_end |-> Len(Utf8(line))] >>,
              panicked |-> FALSE, cursors |-> <<>>]
        ELSE [matches |-> <<>>, panicked |-> FALSE, cursors |-> <<>>]

\* the body of the for loop of search_file_content for line number line_num
\* (0-based): the matches the line contributes
LineMatches(line, pattern, match_mode, line_num) ==
    LET pattern_lower == to_lowercase(pattern)
        line_lower == to_lowercase(line)
        found ==
            IF match_mode = "Exact" THEN contains(line_lower, pattern_lower)
            ELSE contains(line_lower, pattern_lower)
                 \/ IsSome(fuzzy_match(line, pattern, 1))
    IN  IF found THEN ScanLine(line_lower, pattern, 0, line_num)
        ELSE [matches |-> <<>>, panicked |-> FALSE, cursors |-> <<>>]

\* the for loop over the lines from line_num on
RECURSIVE FileMatches(_, _, _, _)
FileMatches(lines, pattern, match_mode, line_num) ==
    IF line_num >= Len(lines) THEN [matches |-> <<>>, panicked |-> FALSE]
    ELSE LET here == LineMatches(lines[line_num + 1], pattern, match_mode, line_num)
         IN  IF here.panicked THEN [matches |-> <<>>, panicked |-> TRUE]
             ELSE LET rest == FileMatches(lines, pattern, match_mode, line_num + 1)
                  IN  [matches |-> here.matches \o rest.matches,
                       panicked |-> rest.panicked]

\* the lines of a file that are read before the one that cannot be decoded
Decodable(file) ==
    IF file.bad_line \in 1..Len(file.lines)
    THEN SubSeq(file.lines, 1, file.bad_line - 1) ELSE file.lines

\* search_file_content returning the matches found before the failing line
search_file_contentKeepsPartial(file, pattern, match_mode) ==
    LET r == FileMatches(Decodable(file), pattern, match_mode, 0)
    IN  IF ~file.open_ok THEN [ok |-> FALSE, matches |-> <<>>, panicked |-> FALSE]
        ELSE [ok |-> ~r.panicked, matches |-> r.matches, panicked |-> r.panicked]

\* Result<Vec<ContentMatch>, _> for a file (its lines, whether File::open
\* succeeds, its undecodable line): Err when the file cannot be opened or a
\* line cannot be decoded; the lines before that one are scanned first, and
\* a panic of the scan unwinds out of the function
search_file_content(file, pattern, match_mode) ==
    LET r == FileMatches(Decodable(file), pattern, match_mode, 0)
    IN  IF ~file.open_ok THEN [ok |-> FALSE, matches |-> <<>>, panicked |-> FALSE]
        ELSE IF r.panicked THEN [ok |-> FALSE, matches |-> <<>>, panicked |-> TRUE]
        ELSE IF file.bad_line \in 1..Len(file.lines)
        THEN [ok |-> FALSE, matches |-> <<>>, panicked |-> FALSE]
        ELSE [ok |-> TRUE, matches |-> r.matches, panicked |-> FALSE]

\* search_files, lines 82-87; "NoSearch" is the early return
SeqSearchType(filename_pattern, content_pattern) ==
    IF IsSome(filename_pattern) /\ IsSome(content_pattern) THEN "Hybrid"
    ELSE IF IsSome(filename_pattern) THEN "FileName"
    ELSE IF IsSome(content_pattern) THEN "Content"
    ELSE "NoSearch"

\* search_files_parallel, lines 272-277
ParSearchType(filename_pattern, content_pattern) ==
    IF IsSome(filename_pattern) /\ IsSome(content_pattern) THEN "Hybrid"
    ELSE IF IsSome(filename_pattern) THEN "FileName"
    ELSE IF IsSome(content_pattern) THEN "Content"
    ELSE "FileName"

\* filename_score and content_matches of an entry (lines 170-187, 418-435)
FilenameScoreOf(path, a) ==
    IF IsSome(a.filename_pattern)
    THEN get_best_match_score(Tree[path].name, a.filename_pattern[1],
                              Tree[path].skim, a.match_mode)
    ELSE None

\* ContentMatchesOf without the allow-list test
ContentMatchesOfAnyFile(path, a) ==
    IF IsSome(a.content_pattern) /\ ~Tree[path].is_dir
    THEN LET r == search_file_content(Tree[path], a.content_pattern[1], a.match_mode)
         IN  IF r.ok /\ r.matches /= <<>> THEN r.matches ELSE <<>>
    ELSE <<>>

ContentMatchesOf(path, a) ==
    IF IsSome(a.content_pattern)
       /\ ~Tree[path].is_dir /\ is_content_searchable(Tree[path].name)
    THEN LET r == search_file_content(Tree[path], a.content_pattern[1], a.match_mode)
         IN  IF r.ok /\ r.matches /= <<>> THEN r.matches ELSE <<>>
    ELSE <<>>

\* the content scan of the entry panics: the search does not return
ContentScanPanics(path, a) ==
    /\ IsSome(a.content_pattern)
    /\ ~Tree[path].is_dir /\ is_content_searchable(Tree[path].name)
    /\ search_file_content(Tree[path], a.content_pattern[1], a.match_mode).panicked

\* what processing an entry leaves in place of its Option<SearchResult> when
\* it panics
Panicked == <<"panic", "panic">>

IsPanicked(r) == Len(r) = 2

\* Aggregate with every entry counted as a match
AggregateMatchesAll(search_type, filename_score, content_matches) ==
    [is_match |-> TRUE,
     final_score |-> unwrap_or(filename_score, 0)
                     + (IF content_matches /= <<>> THEN HybridContentBonus ELSE 0)]

\* (is_match, final_score) of search_files
Aggregate(search_type, filename_score, content_matches) ==
    IF search_type = "FileName"
    THEN [is_match |-> IsSome(filename_score),
          final_score |-> unwrap_or(filename_score, 0)]
    ELSE IF search_type = "Content"
    THEN [is_match |-> content_matches /= <<>>,
          final_score |-> IF content_matches /= <<>> THEN ContentScore ELSE 0]
    ELSE LET has_filename == IsSome(filename_score)
             has_content == content_matches /= <<>>
             score == unwrap_or(filename_score, 0)
                      + (IF has_content THEN HybridContentBonus ELSE 0)
         IN  [is_match |-> has_filename \/ has_content, final_score |-> score]

\* ParAggregate with the content bonus given once per content match
ParAggregateBonusPerMatch(search_type, filename_score, content_matches) ==
    IF search_type = "FileName"
    THEN [is_match |-> IsSome(filename_score),
          final_score |-> unwrap_or(filename_score, 0)]
    ELSE IF search_type = "Content"
    THEN [is_match |-> content_matches /= <<>>,
          final_score |-> IF content_matches /= <<>> THEN ContentScore ELSE 0]
    ELSE [is_match |-> IsSome(filename_score) \/ content_matches /= <<>>,
          final_score |-> unwrap_or(filename_score, 0)
                          + HybridContentBonus * Len(content_matches)]

\* (is_match, final_score) of search_files_parallel
ParAggregate(search_type, filename_score, content_matches) ==
    IF search_type = "FileName"
    THEN [is_match |-> IsSome(filename_score),
          final_score |-> unwrap_or(filename_score, 0)]
    ELSE IF search_type = "Content"
    THEN [is_match |-> content_matches /= <<>>,
          final_score |-> IF content_matches /= <<>> THEN ContentScore ELSE 0]
    ELSE LET has_filename == IsSome(filename_score)
             has_content == content_matches /= <<>>
             score == unwrap_or(filename_score, 0)
                      + (IF has_content THEN HybridContentBonus ELSE 0)
         IN  [is_match |-> has_filename \/ has_content, final_score |-> score]

SearchResult(path, score, content_matches, search_type) ==
    [path |-> path, score |-> score, is_dir |-> Tree[path].is_dir,
     content_matches |-> content_matches, search_type |-> search_type]

\* the body of the for loop of search_files after the counting, for an Ok
\* entry: the SearchResult pushed, or None
SeqProcess(path, a) ==
    LET is_dir == Tree[path].is_dir
        search_type == SeqSearchType(a.filename_pattern, a.content_pattern)
        filename_score == FilenameScoreOf(path, a)
        content_matches == ContentMatchesOf(path, a)
        m == Aggregate(search_type, filename_score, content_matches)
    IN  IF a.dirs_only /\ ~is_dir THEN None
        ELSE IF a.files_only /\ is_dir THEN None
        ELSE IF ContentScanPanics(path, a) THEN Panicked
        ELSE IF m.is_match
             THEN Some(SearchResult(path, m.final_score, content_matches, search_type))
             ELSE None

\* ParPassesTypeFilter with both flags set taken as no filter
ParPassesTypeFilterBothMeansAny(path, a) ==
    LET is_dir == Tree[path].is_dir
    IN  \/ a.dirs_only /\ a.files_only
        \/ ~(a.dirs_only /\ ~is_dir) /\ ~(a.files_only /\ is_dir)

\* whether the closure of search_files_parallel gets past the type filters
ParPassesTypeFilter(path, a) ==
    LET is_dir == Tree[path].is_dir
    IN  ~(a.dirs_only /\ ~is_dir) /\ ~(a.files_only /\ is_dir)

\* the closure of search_files_parallel after the type filters: the
\* SearchResult returned, or None
ParProcess(path, a) ==
    LET search_type == ParSearchType(a.filename_pattern, a.content_pattern)
        filename_score == FilenameScoreOf(path, a)
        content_matches == ContentMatchesOf(path, a)
        m == ParAggregate(search_type, filename_score, content_matches)
    IN  IF ContentScanPanics(path, a) THEN Panicked
        ELSE IF m.is_match
        THEN Some(SearchResult(path, m.final_score, content_matches, search_type))
        ELSE None

\* InsertByScore putting an element before those of equal score
RECURSIVE InsertByScoreTiesFirst(_, _)
InsertByScoreTiesFirst(sorted, r) ==
    IF sorted = <<>> THEN <<r>>
    ELSE IF Head(sorted).score > r.score
         THEN <<Head(sorted)>> \o InsertByScoreTiesFirst(Tail(sorted), r)
         ELSE <<r>> \o sorted

\* results.sort_by(|a, b| b.score.cmp(&a.score)): stable, score descending
RECURSIVE InsertByScore(_, _)
InsertByScore(sorted, r) ==
    IF sorted = <<>> THEN <<r>>
    ELSE IF Head(sorted).score >= r.score
         THEN <<Head(sorted)>> \o InsertByScore(Tail(sorted), r)
         ELSE <<r>> \o sorted

RECURSIVE sort_by_score(_)
sort_by_score(v) ==
    IF v = <<>> THEN <<>>
    ELSE InsertByScore(sort_by_score(SubSeq(v, 1, Len(v) - 1)), v[Len(v)])

truncate(v, n) == SubSeq(v, 1, Min(n, Len(v)))

ArgSets ==
    [filename_pattern : {None, Some(FilenamePattern)},
     content_pattern : {None, Some(ContentPattern)},
     include_hidden : BOOLEAN,
     dirs_only : BOOLEAN,
     files_only : BOOLEAN,
     limit : {1, MaxLimit},
     match_mode : {"Fuzzy", "Exact"},
     max_files_per_search : {2, MaxFilesBound},
     search_path : SearchRoots]

\* the first index after the tree under search_path: where WalkDir ends
WalkEnd(a) == AfterSubtree(a.search_path)

-----------------------------------------------------------------------------
(* The filter predicates *)

\* HiddenExcluded applied to directories only
HiddenExcludedDirsOnly(path, a) ==
    LET effective_hidden == a.include_hidden \/ config.include_hidden
        name == Tree[path].name
    IN  /\ ~effective_hidden /\ starts_with(name, <<".">>) /\ Len(name) > 1
        /\ Tree[path].is_dir

HiddenExcluded(path, a) ==
    LET effective_hidden == a.include_hidden \/ config.include_hidden
        name == Tree[path].name
    IN  ~effective_hidden /\ starts_with(name, <<".">>) /\ Len(name) > 1

IgnoredByConfig(path) ==
    should_ignore_directory(Tree[path].name) \/ should_ignore_file(Tree[path].name)

\* Oversized with a file of exactly the ceiling counted as too large
OversizedAtCeiling(path) == ~Tree[path].is_dir /\ Tree[path].len >= SizeCeiling

Oversized(path) == ~Tree[path].is_dir /\ Tree[path].len > SizeCeiling

\* the filter_entry closure of search_files; run is what running.load gives
SeqFilterEntry(path, a, run) ==
    IF ~run THEN FALSE
    ELSE IF HiddenExcluded(path, a) THEN FALSE
    ELSE IF IgnoredByConfig(path) THEN FALSE
    ELSE IF Oversized(path) THEN FALSE
    ELSE TRUE

\* ParFilterEntry not applied to the search root
ParFilterEntrySparesRoot(path, a) ==
    IF path = a.search_path THEN TRUE
    ELSE IF HiddenExcluded(path, a) THEN FALSE
    ELSE IF IgnoredByConfig(path) THEN FALSE
    ELSE TRUE

\* the filter_entry closure of search_files_parallel
ParFilterEntry(path, a) ==
    IF HiddenExcluded(path, a) THEN FALSE
    ELSE IF IgnoredByConfig(path) THEN FALSE
    ELSE TRUE

\* ParSizeFilter letting every entry through
ParSizeFilterAdmitsAll(path) == TRUE

\* the .filter closure of search_files_parallel
ParSizeFilter(path) == ~Oversized(path)

\* SkipExcluded leaving out the entry alone
SkipExcludedEntryOnly(path) == path + 1

\* FilterEntry::next on an excluded entry: a directory is not descended into
SkipExcluded(path) == IF Tree[path].is_dir THEN AfterSubtree(path) ELSE path + 1

-----------------------------------------------------------------------------
(* The state machine *)

ZeroCounters ==
    [files_processed |-> 0, dirs_processed |-> 0,
     files_scanned |-> 0, dirs_scanned |-> 0]

Init ==
    /\ executor \in {"seq", "par"}
    /\ args \in ArgSets
    /\ outcome = [p \in Paths |-> IF executor = "seq" THEN SeqProcess(p, args)
                                   ELSE ParProcess(p, args)]
    /\ pc = "start"
    /\ handler = FALSE
    /\ running = TRUE
    /\ walker_pos = args.search_path
    /\ current = 0
    /\ results = <<>>
    /\ scanned = [files |-> 0, dirs |-> 0]
    /\ all_paths = <<>>
    /\ task = <<>>
    /\ task_out = <<>>
    /\ counters = ZeroCounters
    /\ processing_complete = FALSE
    /\ progress = "none"
    /\ previous = None
    /\ calls = <<>>

\* the Ctrl+C handler registered by either executor, while the call that
\* registered it holds the flag
Cancel ==
    /\ handler /\ running /\ pc \notin {"start", "done", "panicked"}
    /\ running' = FALSE
    /\ UNCHANGED <<call_inputs, history, pc, handler, walker_pos, current, results,
                   scanned, all_paths, task, task_out, counters,
                   processing_complete, progress>>

(* search_files *)

\* lines 75-101: the early return, or the handler registration.
\* ctrlc::set_handler gives Err(MultipleHandlers) when the process already
\* has a handler, and .expect panics on it.
SeqStart ==
    /\ executor = "seq" /\ pc = "start"
    /\ IF SeqSearchType(args.filename_pattern, args.content_pattern) = "NoSearch"
       THEN pc' = "done" /\ handler' = handler
       ELSE IF handler
       THEN pc' = "panicked" /\ handler' = handler
       ELSE pc' = "walk" /\ handler' = TRUE
    /\ UNCHANGED <<call_inputs, history, running, walker_pos, current, results, scanned,
                   all_paths, task, task_out, counters, processing_complete,
                   progress>>

\* walker.next(): the filter_entry closure on the next entry of the tree
SeqFilter ==
    /\ executor = "seq" /\ pc = "walk" /\ walker_pos < WalkEnd(args)
    /\ IF SeqFilterEntry(walker_pos, args, running)
       THEN /\ current' = walker_pos
            /\ walker_pos' = walker_pos + 1
            /\ pc' = "loop"
       ELSE /\ walker_pos' = SkipExcluded(walker_pos)
            /\ UNCHANGED <<current, pc>>
    /\ UNCHANGED <<call_inputs, history, handler, running, results, scanned, all_paths,
                   task, task_out, counters, processing_complete, progress>>

\* walker.next() returns None
SeqWalkEnd ==
    /\ executor = "seq" /\ pc = "walk" /\ walker_pos >= WalkEnd(args)
    /\ pc' = "final"
    /\ UNCHANGED <<call_inputs, history, handler, running, walker_pos, current, results,
                   scanned, all_paths, task, task_out, counters,
                   processing_complete, progress>>

\* SeqLoop without the check of the flag
SeqLoopNoCheck ==
    /\ executor = "seq" /\ pc = "loop"
    /\ pc' = "walk"
    /\ scanned' = IF Tree[current].is_dir
                  THEN [scanned EXCEPT !.dirs = @ + 1]
                  ELSE [scanned EXCEPT !.files = @ + 1]
    /\ results' = results \o outcome[current]
    /\ UNCHANGED <<call_inputs, history, handler, running, walker_pos, current,
                   all_paths, task, task_out, counters, processing_complete,
                   progress>>

\* one iteration of the for loop, lines 139-225
SeqLoop ==
    /\ executor = "seq" /\ pc = "loop"
    /\ IF ~running
       THEN pc' = "final" /\ UNCHANGED <<results, scanned>>
       ELSE /\ scanned' = IF Tree[current].is_dir
                          THEN [scanned EXCEPT !.dirs = @ + 1]
                          ELSE [scanned EXCEPT !.files = @ + 1]
            /\ IF IsPanicked(outcome[current])
               THEN pc' = "panicked" /\ UNCHANGED results
               ELSE pc' = "walk" /\ results' = results \o outcome[current]
    /\ UNCHANGED <<call_inputs, history, handler, running, walker_pos, current,
                   all_paths, task, task_out, counters, processing_complete,
                   progress>>

\* SeqFinal with the sort and truncation also applied on cancellation
SeqFinalSortsAlways ==
    /\ executor = "seq" /\ pc = "final"
    /\ results' = truncate(sort_by_score(results), args.limit)
    /\ pc' = "done"
    /\ UNCHANGED <<call_inputs, history, handler, running, walker_pos, current, scanned,
                   all_paths, task, task_out, counters, processing_complete,
                   progress>>

\* SeqFinal truncating, without the sort, on cancellation
SeqFinalTruncatesOnCancel ==
    /\ executor = "seq" /\ pc = "final"
    /\ results' = IF running THEN truncate(sort_by_score(results), args.limit)
                  ELSE truncate(results, args.limit)
    /\ pc' = "done"
    /\ UNCHANGED <<call_inputs, history, handler, running, walker_pos, current, scanned,
                   all_paths, task, task_out, counters, processing_complete,
                   progress>>

\* lines 238-243
SeqFinal ==
    /\ executor = "seq" /\ pc = "final"
    /\ results' = IF running THEN truncate(sort_by_score(results), args.limit)
                  ELSE results
    /\ pc' = "done"
    /\ UNCHANGED <<call_inputs, history, handler, running, walker_pos, current, scanned,
                   all_paths, task, task_out, counters, processing_complete,
                   progress>>

(* search_files_parallel *)

\* lines 260-287: the handler registration
ParStart ==
    /\ executor = "par" /\ pc = "start"
    /\ IF handler
       THEN pc' = "panicked" /\ handler' = handler
       ELSE pc' = "enum" /\ handler' = TRUE
    /\ UNCHANGED <<call_inputs, history, running, walker_pos, current, results, scanned,
                   all_paths, task, task_out, counters, processing_complete,
                   progress>>

\* TakePulls with the bound off by one
TakePullsOffByOne == Len(all_paths) <= args.max_files_per_search

\* TakePulls counting only the candidates that pass the type filters
TakePullsCountsTypePassing ==
    Cardinality({i \in 1..Len(all_paths) : ParPassesTypeFilter(all_paths[i], args)})
        < args.max_files_per_search

\* whether .take(config.max_files_per_search) still pulls from the traversal
TakePulls == Len(all_paths) < args.max_files_per_search

\* phase 1, lines 290-328: one entry of the tree through filter_entry,
\* filter, map and take
ParEnumerate ==
    /\ executor = "par" /\ pc = "enum"
    /\ TakePulls /\ walker_pos < WalkEnd(args)
    /\ IF ~ParFilterEntry(walker_pos, args)
       THEN walker_pos' = SkipExcluded(walker_pos) /\ UNCHANGED all_paths
       ELSE /\ walker_pos' = walker_pos + 1
            /\ all_paths' = IF ParSizeFilter(walker_pos)
                            THEN Append(all_paths, walker_pos)
                            ELSE all_paths
    /\ UNCHANGED <<call_inputs, history, pc, handler, running, current, results,
                   scanned, task, task_out, counters, processing_complete,
                   progress>>

\* lines 330-391: collect ends, the progress thread is spawned
ParSpawn ==
    /\ executor = "par" /\ pc = "enum"
    /\ ~TakePulls \/ walker_pos >= WalkEnd(args)
    /\ task' = [i \in 1..Len(all_paths) |-> "pending"]
    /\ task_out' = [i \in 1..Len(all_paths) |-> None]
    /\ progress' = "polling"
    /\ pc' = "phase2"
    /\ UNCHANGED <<call_inputs, history, handler, running, walker_pos, current, results,
                   scanned, all_paths, counters, processing_complete>>

InFlight == {i \in DOMAIN task : task[i] = "matching"}

\* TaskStart without the check of the flag
TaskStartIgnoresFlag(i) ==
    /\ pc = "phase2" /\ task[i] = "pending"
    /\ Cardinality(InFlight) < Threads
    /\ counters' = IF Tree[all_paths[i]].is_dir
                   THEN [counters EXCEPT !.dirs_processed = @ + 1]
                   ELSE [counters EXCEPT !.files_processed = @ + 1]
    /\ task' = [task EXCEPT ![i] =
                   IF ParPassesTypeFilter(all_paths[i], args)
                   THEN "matching" ELSE "done"]
    /\ UNCHANGED <<call_inputs, history, pc, handler, running, walker_pos, current,
                   results, scanned, all_paths, task_out, processing_complete,
                   progress>>

\* TaskStart adding to the processed counter after the type filters
TaskStartCountsAfterFilter(i) ==
    /\ pc = "phase2" /\ task[i] = "pending"
    /\ Cardinality(InFlight) < Threads
    /\ IF ~running
       THEN task' = [task EXCEPT ![i] = "done"] /\ UNCHANGED counters
       ELSE IF ~ParPassesTypeFilter(all_paths[i], args)
       THEN task' = [task EXCEPT ![i] = "done"] /\ UNCHANGED counters
       ELSE /\ counters' = IF Tree[all_paths[i]].is_dir
                           THEN [counters EXCEPT !.dirs_processed = @ + 1]
                           ELSE [counters EXCEPT !.files_processed = @ + 1]
            /\ task' = [task EXCEPT ![i] = "matching"]
    /\ UNCHANGED <<call_inputs, history, pc, handler, running, walker_pos, current,
                   results, scanned, all_paths, task_out, processing_complete,
                   progress>>

\* lines 397-413: the closure of candidate i starts on a pool thread, reads
\* the flag and, when it is still set, adds to the processed counter and
\* applies the type filters
TaskStart(i) ==
    /\ pc = "phase2" /\ task[i] = "pending"
    /\ Cardinality(InFlight) < Threads
    /\ IF ~running
       THEN task' = [task EXCEPT ![i] = "done"] /\ UNCHANGED counters
       ELSE /\ counters' = IF Tree[all_paths[i]].is_dir
                           THEN [counters EXCEPT !.dirs_processed = @ + 1]
                           ELSE [counters EXCEPT !.files_processed = @ + 1]
            /\ task' = [task EXCEPT ![i] =
                           IF ParPassesTypeFilter(all_paths[i], args)
                           THEN "matching" ELSE "done"]
    /\ UNCHANGED <<call_inputs, history, pc, handler, running, walker_pos, current,
                   results, scanned, all_paths, task_out, processing_complete,
                   progress>>

\* TaskFinish with the score raised by the number of files matched so far
TaskFinishReadsCounter(i) ==
    /\ pc = "phase2" /\ task[i] = "matching"
    /\ LET r == outcome[all_paths[i]]
       IN  /\ task_out' = [task_out EXCEPT ![i] =
                  IF IsSome(r)
                  THEN Some([r[1] EXCEPT !.score = @ + counters.files_scanned])
                  ELSE None]
           /\ counters' = IF ~IsSome(r) THEN counters
                          ELSE IF Tree[all_paths[i]].is_dir
                          THEN [counters EXCEPT !.dirs_scanned = @ + 1]
                          ELSE [counters EXCEPT !.files_scanned = @ + 1]
    /\ task' = [task EXCEPT ![i] = "done"]
    /\ UNCHANGED <<call_inputs, history, pc, handler, running, walker_pos,
                   current, results, scanned, all_paths, processing_complete,
                   progress>>

\* TaskFinish reading the flag again and returning None when it is set
TaskFinishDropsOnCancel(i) ==
    /\ pc = "phase2" /\ task[i] = "matching"
    /\ LET r == IF running THEN outcome[all_paths[i]] ELSE None
       IN  /\ task_out' = [task_out EXCEPT ![i] = r]
           /\ counters' = IF ~IsSome(r) THEN counters
                          ELSE IF Tree[all_paths[i]].is_dir
                          THEN [counters EXCEPT !.dirs_scanned = @ + 1]
                          ELSE [counters EXCEPT !.files_scanned = @ + 1]
    /\ task' = [task EXCEPT ![i] = "done"]
    /\ UNCHANGED <<call_inputs, history, pc, handler, running, walker_pos, current,
                   results, scanned, all_paths, processing_complete, progress>>

\* lines 415-483: matching, the scanned counter, the value returned
TaskFinish(i) ==
    /\ pc = "phase2" /\ task[i] = "matching"
    /\ LET r == outcome[all_paths[i]]
       IN  IF IsPanicked(r)
           THEN pc' = "panicked" /\ UNCHANGED <<task_out, counters>>
           ELSE /\ task_out' = [task_out EXCEPT ![i] = r]
                /\ counters' = IF ~IsSome(r) THEN counters
                               ELSE IF Tree[all_paths[i]].is_dir
                               THEN [counters EXCEPT !.dirs_scanned = @ + 1]
                               ELSE [counters EXCEPT !.files_scanned = @ + 1]
                /\ UNCHANGED pc
    /\ task' = [task EXCEPT ![i] = "done"]
    /\ UNCHANGED <<call_inputs, history, handler, running, walker_pos, current,
                   results, scanned, all_paths, processing_complete, progress>>

\* collect() of a rayon iterator over a Vec keeps the order of the candidates
RECURSIVE Collected(_, _)
Collected(out, i) ==
    IF i > Len(out) THEN <<>> ELSE out[i] \o Collected(out, i + 1)

\* lines 484-487: every closure has returned; results are collected and
\* processing_complete is stored
ParCollect ==
    /\ executor = "par" /\ pc = "phase2"
    /\ \A i \in DOMAIN task : task[i] = "done"
    /\ results' = Collected(task_out, 1)
    /\ processing_complete' = TRUE
    /\ pc' = "join"
    /\ UNCHANGED <<call_inputs, history, handler, running, walker_pos, current, scanned,
                   all_paths, task, task_out, counters, progress>>

\* the progress thread, lines 357-391: one evaluation of the loop condition.
\* While it holds the thread sleeps, prints the counters and tests again,
\* which changes nothing the program reads; when it fails the thread prints
\* its last message and ends.
ProgressPoll ==
    /\ progress = "polling"
    /\ progress' = IF ~processing_complete /\ running THEN "polling" ELSE "exited"
    /\ UNCHANGED <<call_inputs, history, pc, handler, running, walker_pos, current,
                   results, scanned, all_paths, task, task_out, counters,
                   processing_complete>>

\* ParJoin without waiting for the progress thread
ParJoinNoWait ==
    /\ executor = "par" /\ pc = "join"
    /\ pc' = "final"
    /\ UNCHANGED <<call_inputs, history, handler, running, walker_pos, current, results,
                   scanned, all_paths, task, task_out, counters,
                   processing_complete, progress>>

\* line 488: progress_thread.join()
ParJoin ==
    /\ executor = "par" /\ pc = "join"
    /\ progress = "exited"
    /\ pc' = "final"
    /\ UNCHANGED <<call_inputs, history, handler, running, walker_pos, current, results,
                   scanned, all_paths, task, task_out, counters,
                   processing_complete, progress>>

\* lines 490-500
ParFinal ==
    /\ executor = "par" /\ pc = "final"
    /\ results' = IF running
                  THEN truncate(sort_by_score(results), args.limit)
                  ELSE truncate(sort_by_score(results),
                                Min(args.limit, Len(sort_by_score(results))))
    /\ pc' = "done"
    /\ UNCHANGED <<call_inputs, history, handler, running, walker_pos, current, scanned,
                   all_paths, task, task_out, counters, processing_complete,
                   progress>>

Next ==
    \/ Cancel
    \/ SeqStart
    \/ SeqFilter
    \/ SeqWalkEnd
    \/ SeqLoop
    \/ SeqFinal
    \/ ParStart
    \/ ParEnumerate
    \/ ParSpawn
    \/ \E i \in DOMAIN task : TaskStart(i)
    \/ \E i \in DOMAIN task : TaskFinish(i)
    \/ ParCollect
    \/ ProgressPoll
    \/ ParJoin
    \/ ParFinal

Spec == Init /\ [][Next]_vars

\* The process calls the executor again with the same arguments on the same
\* tree once the first call has returned. Each call creates its locals
\* anew; the handler registered with ctrlc stays with the process.
Reinvoke ==
    /\ executor \in {"seq", "par"} /\ pc = "done" /\ previous = None
    /\ previous' = Some([results |-> results, cancelled |-> ~running])
    /\ pc' = "start"
    /\ running' = TRUE
    /\ walker_pos' = args.search_path
    /\ current' = 0
    /\ results' = <<>>
    /\ scanned' = [files |-> 0, dirs |-> 0]
    /\ all_paths' = <<>>
    /\ task' = <<>>
    /\ task_out' = <<>>
    /\ counters' = ZeroCounters
    /\ processing_complete' = FALSE
    /\ progress' = "none"
    /\ UNCHANGED <<call_inputs, calls, handler>>

RepeatNext == Next \/ Reinvoke

RepeatSpec == Init /\ [][RepeatNext]_vars

\* Each thread of the program keeps running: the calling thread, the pool
\* thread that holds a closure, the progress thread. Nothing makes the user
\* press Ctrl+C.
MainStep ==
    \/ SeqStart \/ SeqFilter \/ SeqWalkEnd \/ SeqLoop \/ SeqFinal
    \/ ParStart \/ ParEnumerate \/ ParSpawn \/ ParCollect \/ ParJoin \/ ParFinal

TaskStep(i) == i \in DOMAIN task /\ (TaskStart(i) \/ TaskFinish(i))

FairSpec ==
    /\ Spec
    /\ WF_vars(MainStep)
    /\ WF_vars(ProgressPoll)
    /\ \A i \in Paths : WF_vars(TaskStep(i))

-----------------------------------------------------------------------------
(* get_best_match_score called on its own *)

\* file names that have the patterns as a prefix, as a substring, as a
\* subsequence only, or not at all
ScoreFilenames ==
    { <<"T","e","s","t",".","r","s">>, <<"m","y","t","e","s","t">>,
      <<"t","e","_","s","t">>, <<"a","b">> }

ScorePatterns == { FilenamePattern, <<"T","e">> }

\* values of matcher.fuzzy_match(filename, pattern) when it matches: an i64
\* the code takes as the library returns it
SkimScores == {40, 99, 120, 160}

\* no search is running
ScoreInit ==
    /\ executor = "none"
    /\ args = <<>>
    /\ outcome = <<>>
    /\ pc = "done"
    /\ handler = FALSE
    /\ running = TRUE
    /\ walker_pos = 1
    /\ current = 0
    /\ results = <<>>
    /\ scanned = [files |-> 0, dirs |-> 0]
    /\ all_paths = <<>>
    /\ task = <<>>
    /\ task_out = <<>>
    /\ counters = ZeroCounters
    /\ processing_complete = FALSE
    /\ progress = "none"
    /\ previous = None
    /\ calls = <<>>

\* one call get_best_match_score(filename, pattern, &matcher, match_mode);
\* the matcher gives one name and pattern the same score every time
ScoreCall ==
    /\ executor = "none" /\ Len(calls) < MaxCalls
    /\ \E filename \in ScoreFilenames, pattern \in ScorePatterns,
          skim \in SkimScores, match_mode \in {"Fuzzy", "Exact"} :
          /\ \A k \in 1..Len(calls) :
                (calls[k].filename = filename /\ calls[k].pattern = pattern)
                    => calls[k].skim = skim
          /\ calls' = Append(calls,
                 [filename |-> filename, pattern |-> pattern, skim |-> skim,
                  match_mode |-> match_mode,
                  score |-> get_best_match_score(filename, pattern, skim,
                                                 match_mode)])
    /\ UNCHANGED <<call_inputs, previous, pc, handler, running, walker_pos,
                   current, results, scanned, all_paths, task, task_out,
                   counters, processing_complete, progress>>

ScoreNext == ScoreCall

ScoreSpec == ScoreInit /\ [][ScoreNext]_vars

-----------------------------------------------------------------------------
(* Vocabulary of the properties *)

IsSortedDesc(v) == \A i \in 1..(Len(v) - 1) : v[i].score >= v[i + 1].score

Range(v) == {v[i] : i \in 1..Len(v)}

Returned == pc = "done"

\* an entry the traversal never yields: it or a directory above it is
\* hidden under the run's policy or ignored by the configuration
Pruned(p, a) ==
    \/ p < a.search_path \/ p >= WalkEnd(a)
    \/ \E q \in Paths :
          /\ a.search_path <= q /\ q <= p /\ p < AfterSubtree(q)
          /\ HiddenExcluded(q, a) \/ IgnoredByConfig(q)

VisiblePaths(a) == {p \in Paths : ~Pruned(p, a) /\ ~Oversized(p)}

\* the first max_files_per_search visible entries in traversal order
CandidatePaths(a) ==
    LET visible == VisiblePaths(a)
    IN  {p \in visible :
            Cardinality({q \in visible : q < p}) < a.max_files_per_search}

PassesTypeFilters(p, a) ==
    /\ ~(a.dirs_only /\ ~Tree[p].is_dir)
    /\ ~(a.files_only /\ Tree[p].is_dir)

\* the aggregation rule of section 4.4 of the specification
RuleMatches(st, fs, cm) ==
    \/ st = "FileName" /\ IsSome(fs)
    \/ st = "Content" /\ cm /= <<>>
    \/ st = "Hybrid" /\ (IsSome(fs) \/ cm /= <<>>)

RuleScore(st, fs, cm) ==
    CASE st = "FileName" -> unwrap_or(fs, 0)
      [] st = "Content" -> IF cm /= <<>> THEN 100 ELSE 0
      [] st = "Hybrid" -> unwrap_or(fs, 0) + (IF cm /= <<>> THEN 50 ELSE 0)

RunSearchType ==
    IF executor = "seq" THEN SeqSearchType(args.filename_pattern, args.content_pattern)
    ELSE ParSearchType(args.filename_pattern, args.content_pattern)

\* the (path, score) pairs an uncancelled parallel run must produce, as a
\* function of the arguments alone
ExpectedParPairs(a) ==
    LET st == ParSearchType(a.filename_pattern, a.content_pattern)
    IN  { <<p, RuleScore(st, FilenameScoreOf(p, a), ContentMatchesOf(p, a))>> :
            p \in {q \in CandidatePaths(a) :
                     /\ PassesTypeFilters(q, a)
                     /\ RuleMatches(st, FilenameScoreOf(q, a), ContentMatchesOf(q, a))} }

PairsOf(v) == { <<v[i].path, v[i].score>> : i \in 1..Len(v) }

-----------------------------------------------------------------------------
(* Claims *)

\* C1: the list either executor returns has at most `limit` elements, in
\* every search type and match mode, cancelled or not.
C1_LenAtMostLimit == Returned => Len(results) <= args.limit

\* C2: the list either executor returns is ordered by score descending.
C2_ReturnedSortedDescending == Returned => IsSortedDesc(results)

\* C3: the last step of search_files sorts the accumulator by score
\* descending and truncates it to `limit` when the flag is unset at the final
\* check (the returned list is descending, has min(len, limit) elements, all
\* from the accumulator, and no element left out scores above one kept), and
\* returns the accumulator exactly as collected when the flag is set.
C3_SeqFinalSortsIffRunning ==
    [][ (executor = "seq" /\ pc = "final" /\ pc' = "done") =>
          IF running
          THEN /\ IsSortedDesc(results')
               /\ Len(results') = Min(Len(results), args.limit)
               /\ Range(results') \subseteq Range(results)
               /\ \A r \in Range(results) \ Range(results') :
                     \A k \in Range(results') : r.score <= k.score
          ELSE results' = results ]_vars

\* a cancelled sequential run has returned its accumulator in traversal
\* order: longer than `limit` and not descending
C3_Witness ==
    /\ executor = "seq" /\ Returned /\ ~running
    /\ Len(results) > args.limit
    /\ ~IsSortedDesc(results)
    /\ \A i \in 1..(Len(results) - 1) : results[i].path < results[i + 1].path

\* C4: wherever the filter predicate is applied, once the cancellation flag
\* is set no further entry is admitted: the sequential walker yields no entry
\* to the loop and phase 1 of the parallel executor adds no candidate.
C4_NoEntryAdmittedAfterCancel ==
    [][ ~running => /\ all_paths' = all_paths
                    /\ (pc = "walk" => pc' /= "loop") ]_vars

\* C5: once the cancellation flag is set the call returns; a sequential run
\* appends nothing more, a candidate whose closure starts afterwards is
\* skipped (no result, no counter), and at the return of the parallel
\* executor every closure has returned and the progress thread has ended.
C5_CancelledCallReturns ==
    /\ (~running) ~> Returned
    /\ [](Returned /\ executor = "par" =>
            /\ progress = "exited"
            /\ \A i \in DOMAIN task : task[i] = "done")
    /\ [][ ~running =>
             /\ executor = "seq" => results' = results /\ scanned' = scanned
             /\ \A i \in DOMAIN task :
                   task[i] = "pending" /\ task'[i] /= "pending" =>
                       /\ task'[i] = "done"
                       /\ task_out'[i] = None
                       /\ counters' = counters ]_vars

\* a cancelled parallel run has returned with the progress thread ended and
\* a candidate skipped that would have matched
C5_Witness ==
    /\ executor = "par" /\ Returned /\ ~running
    /\ progress = "exited"
    /\ \E i \in DOMAIN task :
          /\ task_out[i] = None
          /\ PassesTypeFilters(all_paths[i], args)
          /\ IsSome(ParProcess(all_paths[i], args))
    /\ counters.files_processed + counters.dirs_processed < Len(all_paths)

\* C6: the progress thread ends once processing_complete is stored or the
\* flag is cleared, and search_files_parallel has joined it before its final
\* sort and truncation and before it returns.
C6_ProgressThreadJoined ==
    /\ (progress = "polling" /\ (processing_complete \/ ~running))
          ~> (progress = "exited")
    /\ [](executor = "par" /\ pc \in {"final", "done"} => progress = "exited")

\* an uncancelled parallel run is about to sort: completion was signalled
\* and the progress thread has ended
C6_Witness ==
    /\ executor = "par" /\ pc = "final" /\ running
    /\ processing_complete /\ progress = "exited"
    /\ Len(results) >= 2

\* C7: in an uncancelled parallel run the (path, score) pairs collected
\* before the truncation are a function of the arguments alone, whatever the
\* interleaving of the closures and the progress thread.
C7_ParResultsScheduleIndependent ==
    (executor = "par" /\ pc \in {"join", "final"} /\ running)
        => /\ PairsOf(results) = ExpectedParPairs(args)
           /\ Len(results) = Cardinality(ExpectedParPairs(args))

\* an uncancelled parallel run over five candidates has collected at least
\* three results
C7_Witness ==
    /\ executor = "par" /\ pc = "final" /\ running
    /\ Len(all_paths) > Threads
    /\ Len(results) >= 3

\* C8: the candidate list never holds more than max_files_per_search paths,
\* and once it holds that many the traversal is not pulled from again.
C8_CandidateCap ==
    /\ [](Len(all_paths) <= args.max_files_per_search)
    /\ [][ (executor = "par" /\ Len(all_paths) >= args.max_files_per_search)
              => walker_pos' = walker_pos ]_vars

\* phase 1 ended at the cap with visible entries of the tree not looked at
C8_Witness ==
    /\ executor = "par" /\ pc = "phase2"
    /\ Len(all_paths) = args.max_files_per_search
    /\ \E p \in VisiblePaths(args) : p >= walker_pos

\* C9: every SearchResult held or returned satisfies the aggregation rule of
\* the run's search type: filename score present (FileName), content matches
\* non-empty (Content), either of the two (Hybrid).
C9_ResultsSatisfyRule ==
    \A r \in Range(results) \cup {o[1] : o \in {x \in Range(task_out) : IsSome(x)}} :
        /\ r.search_type = RunSearchType
        /\ r.search_type = "FileName" => IsSome(FilenameScoreOf(r.path, args))
        /\ r.search_type = "Content" => r.content_matches /= <<>>
        /\ r.search_type = "Hybrid" =>
              IsSome(FilenameScoreOf(r.path, args)) \/ r.content_matches /= <<>>

\* a Hybrid run returned one result matched by name only and one matched by
\* content only
C9_Witness ==
    /\ Returned /\ RunSearchType = "Hybrid"
    /\ \E r \in Range(results) :
          IsSome(FilenameScoreOf(r.path, args)) /\ r.content_matches = <<>>
    /\ \E r \in Range(results) :
          ~IsSome(FilenameScoreOf(r.path, args)) /\ r.content_matches /= <<>>

\* C10: in a Hybrid run the score of every result is its filename score (0
\* when the name did not match) plus 50 when it has a content match, however
\* many; a filename score of 150 with one content match gives 200.
C10_HybridScore ==
    RunSearchType = "Hybrid" =>
        \A r \in Range(results) :
            LET fs == FilenameScoreOf(r.path, args)
            IN  /\ r.score = (IF IsSome(fs) THEN fs[1] ELSE 0)
                             + (IF Len(r.content_matches) >= 1 THEN 50 ELSE 0)
                /\ (fs = Some(150) /\ Len(r.content_matches) = 1) => r.score = 200

\* a Hybrid run of the parallel executor returned a prefix match with one
\* content match at 200 and a content-only result with two matches at 50
C10_Witness ==
    /\ executor = "par" /\ Returned /\ RunSearchType = "Hybrid"
    /\ \E r \in Range(results) :
          /\ FilenameScoreOf(r.path, args) = Some(150)
          /\ Len(r.content_matches) = 1
          /\ r.score = 200
    /\ \E r \in Range(results) :
          /\ Len(r.content_matches) = 2
          /\ r.score = 50

\* every SearchResult the run holds: accumulated, returned by a closure, or
\* in the returned list
Produced == Range(results) \cup {o[1] : o \in {x \in Range(task_out) : IsSome(x)}}

NoPattern == args.filename_pattern = None /\ args.content_pattern = None

\* C11: when neither pattern is supplied no search is performed by either
\* executor: no handler is registered, the tree is not enumerated, the
\* progress thread is not spawned, and the list returned is empty.
C11_NoPatternNoSearch ==
    NoPattern => /\ ~handler
                 /\ walker_pos = args.search_path /\ all_paths = <<>>
                 /\ progress = "none"
                 /\ results = <<>>

\* whether the path of p has, below the search root, a component that starts
\* with '.' and is longer than one character
HasHiddenComponent(p) ==
    \E q \in Paths :
        /\ q > args.search_path
        /\ q <= p /\ p < AfterSubtree(q)
        /\ Tree[q].name[1] = "." /\ Len(Tree[q].name) > 1

\* C12: with the effective hidden policy off, no result of either executor
\* has a hidden component below the search root.
C12_NoHiddenResults ==
    ~(args.include_hidden \/ config.include_hidden) =>
        \A r \in Produced : ~HasHiddenComponent(r.path)

\* an uncancelled run with the policy off returned results although a hidden
\* file of the tree matches the patterns
C12_Witness ==
    /\ ~args.include_hidden /\ Returned /\ running /\ results /= <<>>
    /\ \E p \in Paths :
          /\ HasHiddenComponent(p) /\ ~Tree[p].is_dir /\ ~IgnoredByConfig(p)
          /\ IsSome(outcome[p])

TooLarge(p) == ~Tree[p].is_dir /\ Tree[p].len > config.max_file_size_mb * 1024 * 1024

AtCeiling(p) == ~Tree[p].is_dir /\ Tree[p].len = config.max_file_size_mb * 1024 * 1024

\* C13: no result is a regular file larger than the ceiling; such a file is
\* left out by the traversal itself (it is never handed to the loop, never a
\* candidate), also when its name matches; a file of exactly the ceiling
\* that the traversal has passed is handed on and, when it matches, is among
\* the results of an uncancelled run before the truncation.
C13_OversizedExcluded ==
    /\ \A r \in Produced : ~TooLarge(r.path)
    /\ \A i \in 1..Len(all_paths) : ~TooLarge(all_paths[i])
    /\ current /= 0 => ~TooLarge(current)
    /\ \A p \in Paths :
          (AtCeiling(p) /\ ~Pruned(p, args) /\ walker_pos > p /\ running) =>
              /\ executor = "par" => p \in Range(all_paths)
              /\ (executor = "par" /\ pc \in {"join", "final"}
                    /\ PassesTypeFilters(p, args) /\ IsSome(outcome[p]))
                     => outcome[p][1] \in Range(results)
              /\ (executor = "seq" /\ pc \in {"walk", "final"} /\ IsSome(outcome[p]))
                     => outcome[p][1] \in Range(results)

\* an uncancelled run returned a file of exactly the ceiling while a larger
\* file whose name matches the pattern is absent
C13_Witness ==
    /\ Returned /\ running
    /\ \E r \in Range(results) : AtCeiling(r.path)
    /\ \E p \in Paths :
          /\ TooLarge(p) /\ ~Pruned(p, args) /\ PassesTypeFilters(p, args)
          /\ IsSome(FilenameScoreOf(p, args))
          /\ \A r \in Range(results) : r.path /= p

\* C14: a result has content matches only if it is a file that
\* is_content_searchable accepts; a directory or a file outside the
\* allow-list is never a Content result and its score has no content part,
\* whatever its text holds.
C14_ContentOnlyFromSearchable ==
    \A r \in Produced :
        LET name == Tree[r.path].name
            allowed == ~Tree[r.path].is_dir /\ is_content_searchable(name)
        IN  /\ r.content_matches /= <<>> => allowed
            /\ ~allowed => /\ r.search_type /= "Content"
                           /\ r.score = unwrap_or(FilenameScoreOf(r.path, args), 0)

\* a Hybrid run returned a file outside the allow-list whose text holds the
\* content pattern: no content match, the filename score alone
C14_Witness ==
    /\ Returned /\ RunSearchType = "Hybrid"
    /\ \E r \in Range(results) :
          /\ ~Tree[r.path].is_dir /\ ~is_content_searchable(Tree[r.path].name)
          /\ \E k \in 1..Len(Tree[r.path].lines) :
                contains(to_lowercase(Tree[r.path].lines[k]), ContentPattern)
          /\ r.content_matches = <<>>
          /\ r.score = unwrap_or(FilenameScoreOf(r.path, args), 0)
    /\ \E r \in Range(results) : r.content_matches /= <<>>

\* how a file name matches a pattern, case ignored
HasPrefix(c) == starts_with(to_lowercase(c.filename), to_lowercase(c.pattern))

HasSubstringOnly(c) ==
    /\ contains(to_lowercase(c.filename), to_lowercase(c.pattern))
    /\ ~HasPrefix(c)

HasSubsequenceOnly(c) ==
    /\ IsSome(c.score)
    /\ ~contains(to_lowercase(c.filename), to_lowercase(c.pattern))

\* C15: in Fuzzy mode, for one pattern, a name with the pattern as a prefix
\* scores at least as high as a name with it only as a non-prefix substring,
\* which scores at least as high as a name matched only as a subsequence,
\* whose score is below 100, whatever the subsequence scorer returns.
C15_FuzzyScoreOrder ==
    \A i, j \in 1..Len(calls) :
        LET a == calls[i]
            b == calls[j]
        IN  (a.match_mode = "Fuzzy" /\ b.match_mode = "Fuzzy"
             /\ a.pattern = b.pattern) =>
                /\ (HasPrefix(a) /\ HasSubstringOnly(b)) => a.score[1] >= b.score[1]
                /\ (HasSubstringOnly(a) /\ HasSubsequenceOnly(b))
                       => a.score[1] >= b.score[1]
                /\ HasSubsequenceOnly(a) => a.score[1] < 100

\* C16: a second search of the same process, with the same arguments over
\* the same tree, completes like the first and, neither being cancelled,
\* returns the same (path, score) pairs.
C16_SecondSearchSame ==
    (IsSome(previous) /\ ~previous[1].cancelled) =>
        /\ pc /= "panicked"
        /\ (Returned /\ running) =>
               /\ PairsOf(results) = PairsOf(previous[1].results)
               /\ Len(results) = Len(previous[1].results)

FewerThanCap == Cardinality(VisiblePaths(args)) < args.max_files_per_search

\* what the executor that is not running yields for the visible entries from
\* p on, in traversal order, before the sort
RECURSIVE OtherExecutorList(_)
OtherExecutorList(p) ==
    IF p > Len(Tree) THEN <<>>
    ELSE (IF p \notin VisiblePaths(args) THEN <<>>
          ELSE IF executor = "par" THEN SeqProcess(p, args)
          ELSE IF ParPassesTypeFilter(p, args) THEN ParProcess(p, args)
          ELSE None)
         \o OtherExecutorList(p + 1)

TriplesOf(v) == { <<v[i].path, v[i].score, v[i].content_matches>> : i \in 1..Len(v) }

ScoresOf(v) == [i \in 1..Len(v) |-> v[i].score]

\* C17: with the same arguments, no cancellation and fewer visible entries
\* than max_files_per_search, what one executor holds before the truncation
\* has the (path, score, content_matches) triples the other executor yields,
\* and the list it returns has the scores of the other's returned list.
C17_ExecutorsAgree ==
    (executor \in {"seq", "par"} /\ running /\ FewerThanCap) =>
        /\ ((executor = "seq" /\ pc = "final")
              \/ (executor = "par" /\ pc \in {"join", "final"})) =>
                 /\ TriplesOf(results) = TriplesOf(OtherExecutorList(1))
                 /\ Len(results) = Len(OtherExecutorList(1))
        /\ Returned =>
              ScoresOf(results) =
                  ScoresOf(truncate(sort_by_score(OtherExecutorList(1)), args.limit))

\* an uncancelled Hybrid run of the parallel executor below the cap returned
\* a truncated list that holds a result with content matches
C17_Witness ==
    /\ executor = "par" /\ Returned /\ running /\ FewerThanCap
    /\ RunSearchType = "Hybrid"
    /\ Len(OtherExecutorList(1)) > args.limit
    /\ Len(results) = MaxLimit
    /\ \E r \in Range(results) : r.content_matches /= <<>>

\* a file whose content scan fails: it cannot be opened, or one of its lines
\* cannot be decoded
ScanFails(p) ==
    /\ ~Tree[p].is_dir
    /\ ~Tree[p].open_ok \/ Tree[p].bad_line \in 1..Len(Tree[p].lines)

\* C18: a file whose content scan fails has no content match, also when a
\* line before the failing one holds the pattern, so it is no Content result
\* and its score has no content part; the search goes on: the pc never
\* stops at a failure, and in an uncancelled run every entry the traversal
\* handed on that matches is among the results before the truncation.
C18_ScanFailureIsNoMatch ==
    /\ \A r \in Produced :
          ScanFails(r.path) =>
              /\ r.content_matches = <<>>
              /\ r.search_type /= "Content"
              /\ r.score = unwrap_or(FilenameScoreOf(r.path, args), 0)
    /\ pc /= "panicked"
    /\ (executor = "seq" /\ running /\ pc \in {"walk", "final"}) =>
          \A q \in Paths :
              (q < walker_pos /\ ~Pruned(q, args) /\ ~TooLarge(q)
               /\ IsSome(outcome[q])) => outcome[q][1] \in Range(results)
    /\ (executor = "par" /\ running /\ pc \in {"join", "final"}) =>
          \A q \in Range(all_paths) :
              (PassesTypeFilters(q, args) /\ IsSome(outcome[q]))
                  => outcome[q][1] \in Range(results)

\* an uncancelled sequential Hybrid run is about to sort: it holds the file
\* whose second line cannot be decoded, without the match of its first line,
\* and a later file with its content matches
C18_Witness ==
    /\ executor = "seq" /\ pc = "final" /\ running /\ RunSearchType = "Hybrid"
    /\ \E r \in Range(results) :
          /\ ScanFails(r.path) /\ is_content_searchable(Tree[r.path].name)
          /\ Tree[r.path].bad_line > 1
          /\ contains(to_lowercase(Tree[r.path].lines[1]), ContentPattern)
          /\ r.content_matches = <<>>
          /\ \E r2 \in Range(results) :
                r2.path > r.path /\ r2.content_matches /= <<>>

\* C19: search_files reads the flag at the top of every iteration, before
\* the entry it holds is counted, scored, scanned or appended: an iteration
\* that finds the flag set leaves the loop with the accumulator and the
\* counts as they are, nothing is appended or counted anywhere else, and
\* what a cancelled call returns holds only entries that were handed to the
\* loop, as accumulated.
C19_SeqChecksBeforeEveryEntry ==
    /\ [][ (executor = "seq" /\ pc = "loop" /\ pc' /= "loop") =>
             IF running
             THEN /\ results' = results \o outcome[current]
                  /\ pc' = "walk"
             ELSE /\ results' = results /\ scanned' = scanned
                  /\ pc' = "final" ]_vars
    /\ [][ (executor = "seq" /\ pc /= "final"
            /\ (results' /= results \/ scanned' /= scanned))
              => (pc = "loop" /\ running) ]_vars
    /\ [][ (executor = "seq" /\ pc = "final" /\ ~running)
              => results' = results ]_vars
    /\ [](executor = "seq" =>
            \A i \in 1..Len(results) :
                /\ results[i].path <= current
                /\ results[i] = outcome[results[i].path][1])

\* a cancelled sequential run returned what it had accumulated, while a
\* visible entry further on in the tree, which matches, was never processed
C19_Witness ==
    /\ executor = "seq" /\ Returned /\ ~running /\ results /= <<>>
    /\ \E p \in Paths :
          /\ p > current /\ ~Pruned(p, args) /\ ~TooLarge(p)
          /\ IsSome(outcome[p])
          /\ \A i \in 1..Len(results) : results[i].path /= p

\* the flag is read where a closure starts and nowhere else in it: a closure
\* that starts with the flag set ends at once with no result and no counter
\* touched; one that has passed the check ends with what the matching of its
\* candidate gives, whatever the flag is by then; a closure that has ended
\* stays as it is; every result a closure returned is collected
PhaseTwoChecksAtStart ==
    /\ [][ \A i \in DOMAIN task :
             (task[i] = "pending" /\ task'[i] /= "pending" /\ ~running) =>
                 /\ task'[i] = "done"
                 /\ task_out'[i] = None
                 /\ counters' = counters ]_vars
    /\ [][ \A i \in DOMAIN task :
             (task[i] = "matching" /\ task'[i] /= "matching") =>
                 /\ task'[i] = "done"
                 /\ task_out'[i] = outcome[all_paths[i]] ]_vars
    /\ [][ \A i \in DOMAIN task :
             task[i] = "done" => task'[i] = "done" /\ task_out'[i] = task_out[i] ]_vars
    /\ [](executor = "par" /\ pc \in {"join", "final"} =>
            \A i \in DOMAIN task_out :
                IsSome(task_out[i]) => task_out[i][1] \in Range(results))

\* C20 as stated: the flag is read once per candidate, at the start of its
\* closure, and the result of a candidate that passed the check before the
\* flag was set is in the list a cancelled call returns.
C20_InFlightResultReturned ==
    /\ PhaseTwoChecksAtStart
    /\ [](executor = "par" /\ Returned /\ ~running =>
            \A i \in DOMAIN task_out :
                IsSome(task_out[i]) => task_out[i][1] \in Range(results))

\* C20, amended: the flag is read once per candidate, at the start of its
\* closure, and the result of a candidate that passed the check before the
\* flag was set is collected; it is in the list a cancelled call returns
\* unless the truncation to `limit` leaves it out, in which case `limit`
\* results that score at least as high are returned.
C20_InFlightResultKeptUpToLimit ==
    /\ PhaseTwoChecksAtStart
    /\ [](executor = "par" /\ Returned /\ ~running =>
            \A i \in DOMAIN task_out :
                IsSome(task_out[i]) =>
                    \/ task_out[i][1] \in Range(results)
                    \/ /\ Len(results) = args.limit
                       /\ \A r \in Range(results) : r.score >= task_out[i][1].score)

\* a cancelled parallel run has returned: one candidate that passed the
\* check is in the list, one was truncated away, and one that would have
\* matched started after the flag was set and gave nothing
C20_Witness ==
    /\ executor = "par" /\ Returned /\ ~running
    /\ \E i \in DOMAIN task_out :
          IsSome(task_out[i]) /\ task_out[i][1] \in Range(results)
    /\ \E i \in DOMAIN task_out :
          IsSome(task_out[i]) /\ task_out[i][1] \notin Range(results)
    /\ \E i \in DOMAIN task_out :
          /\ task_out[i] = None
          /\ PassesTypeFilters(all_paths[i], args)
          /\ IsSome(outcome[all_paths[i]])

\* a directory of the walk that the filter predicate excludes by its name
ExcludedDir(q) ==
    /\ args.search_path <= q /\ q < WalkEnd(args)
    /\ Tree[q].is_dir
    /\ HiddenExcluded(q, args) \/ IgnoredByConfig(q)

BelowExcludedDir(p) ==
    \E q \in Paths : ExcludedDir(q) /\ q < p /\ p < AfterSubtree(q)

\* C21: the predicate is applied to a directory before it is descended
\* into: the step that excludes a directory (hidden, ignored name, or the
\* flag being set) moves the walker past everything under it, and no entry
\* under an excluded directory is ever handed to the loop, made a
\* candidate, counted or returned, in either executor.
C21_ExcludedDirNotDescended ==
    /\ [][ (pc \in {"walk", "enum"} /\ walker_pos' /= walker_pos
            /\ walker_pos < WalkEnd(args) /\ Tree[walker_pos].is_dir
            /\ (ExcludedDir(walker_pos) \/ (executor = "seq" /\ ~running)))
              => /\ walker_pos' >= AfterSubtree(walker_pos)
                 /\ UNCHANGED <<current, all_paths, results, scanned, counters>> ]_vars
    /\ [](\A p \in Paths :
            BelowExcludedDir(p) =>
                /\ current /= p
                /\ p \notin Range(all_paths)
                /\ \A r \in Produced : r.path /= p)
    /\ [](scanned.files + scanned.dirs
            <= Cardinality({p \in Paths : p <= current /\ ~BelowExcludedDir(p)}))
    /\ [][ (executor = "seq" /\ ~running) => current' = current ]_vars

\* an uncancelled run over "test" returned results; the walker went past the
\* ignored directory .git without looking at the file in it, whose name
\* matches the pattern
C21_Witness ==
    /\ Returned /\ running /\ results /= <<>> /\ args.search_path = 1
    /\ \E p \in Paths :
          /\ BelowExcludedDir(p) /\ p < walker_pos
          /\ ~HiddenExcluded(p, args) /\ ~IgnoredByConfig(p)
          /\ IsSome(FilenameScoreOf(p, args))

\* whether the filter predicate excludes the search root by its own name
RootExcluded ==
    LET name == Tree[args.search_path].name
    IN  \/ ~(args.include_hidden \/ config.include_hidden)
           /\ name[1] = "." /\ Len(name) > 1
        \/ should_ignore_directory(name)
        \/ should_ignore_file(name)

\* C26: the predicate is evaluated on the search root itself: when the
\* root's own name is hidden under the policy or is on an ignore list,
\* nothing of the tree is handed on or made a candidate, and both executors
\* return an empty list.
C26_ExcludedRootPrunesAll ==
    RootExcluded =>
        /\ current = 0 /\ all_paths = <<>>
        /\ results = <<>> /\ Produced = {}
        /\ scanned = [files |-> 0, dirs |-> 0]
        /\ walker_pos \in {args.search_path, WalkEnd(args)}

\* the parallel executor, given the directory .git as search root with
\* hidden entries included, returned an empty list although the file in it
\* matches
C26_Witness ==
    /\ executor = "par" /\ Returned /\ running /\ RootExcluded
    /\ args.include_hidden
    /\ walker_pos = WalkEnd(args) /\ results = <<>>
    /\ \E p \in Paths :
          /\ p > args.search_path /\ p < WalkEnd(args)
          /\ ~IgnoredByConfig(p) /\ IsSome(outcome[p])

\* what search_files has accumulated once every visible entry from p on has
\* gone through the loop, in traversal order
RECURSIVE SeqAccumulated(_)
SeqAccumulated(p) ==
    IF p > Len(Tree) THEN <<>>
    ELSE (IF p \in VisiblePaths(args) THEN outcome[p] ELSE <<>>)
         \o SeqAccumulated(p + 1)

SeqAllProcessed ==
    /\ executor = "seq"
    /\ scanned.files + scanned.dirs = Cardinality(VisiblePaths(args))

\* C24: when search_files has processed every entry and the flag is set
\* before the final check, it returns the complete accumulator in traversal
\* order, untruncated; it returns the sorted, truncated list exactly when the
\* flag is unset at that check.
C24_LateCancelReturnsAll ==
    /\ [](Returned /\ SeqAllProcessed =>
            results = IF running
                      THEN truncate(sort_by_score(SeqAccumulated(1)), args.limit)
                      ELSE SeqAccumulated(1))
    /\ [][ (executor = "seq" /\ pc = "final" /\ pc' = "done") =>
             results' = IF running
                        THEN truncate(sort_by_score(results), args.limit)
                        ELSE results ]_vars

\* every visible entry was processed, the flag was set before the final
\* check, and the list returned is longer than `limit` and not descending
C24_Witness ==
    /\ Returned /\ SeqAllProcessed /\ ~running
    /\ results = SeqAccumulated(1)
    /\ Len(results) > args.limit
    /\ ~IsSortedDesc(results)

Processed == counters.files_processed + counters.dirs_processed

Scanned == counters.files_scanned + counters.dirs_scanned

\* C25: the four counters of search_files_parallel never decrease; at all
\* times processed <= candidates, files_scanned <= files_processed and
\* dirs_scanned <= dirs_processed; when every closure has returned and the
\* flag is unset, processed = candidates and scanned = results before the
\* truncation.
C25_CountersConsistent ==
    /\ [][ /\ counters'.files_processed >= counters.files_processed
           /\ counters'.dirs_processed >= counters.dirs_processed
           /\ counters'.files_scanned >= counters.files_scanned
           /\ counters'.dirs_scanned >= counters.dirs_scanned ]_vars
    /\ [](/\ Processed <= Len(all_paths)
          /\ counters.files_scanned <= counters.files_processed
          /\ counters.dirs_scanned <= counters.dirs_processed)
    /\ [](executor = "par" /\ running /\ pc \in {"join", "final"} =>
            /\ Processed = Len(all_paths)
            /\ Scanned = Len(results))
    /\ [](executor = "par" /\ running /\ Returned =>
            /\ Processed = Len(all_paths)
            /\ Scanned = Cardinality({i \in DOMAIN task_out : IsSome(task_out[i])}))

\* an uncancelled parallel run is about to sort: every candidate was
\* processed, fewer were scanned, as many as there are results
C25_Witness ==
    /\ executor = "par" /\ pc = "final" /\ running
    /\ Len(all_paths) >= 4 /\ Processed = Len(all_paths)
    /\ Scanned < Processed /\ Scanned = Len(results) /\ Scanned >= 2
    /\ counters.dirs_processed >= 1 /\ counters.files_scanned >= 1

\* C27: the candidates of search_files_parallel are the first
\* max_files_per_search visible entries in traversal order, whatever
\* dirs_only, files_only and the patterns are, and no entry outside them is
\* ever returned.
C27_CapBeforeFilters ==
    executor = "par" =>
        LET first == CandidatePaths(args)
        IN  /\ Range(all_paths) \subseteq first
            /\ \A i \in 1..(Len(all_paths) - 1) : all_paths[i] < all_paths[i + 1]
            /\ pc \notin {"start", "enum"} => Range(all_paths) = first
            /\ \A r \in Produced : r.path \in first

\* an uncancelled files_only run of the parallel executor reached the cap and
\* returned a list without a visible file beyond the cap that scores above
\* everything returned; search_files returns other scores
C27_Witness ==
    /\ executor = "par" /\ Returned /\ running /\ args.files_only
    /\ Len(all_paths) = args.max_files_per_search
    /\ \E i \in 1..Len(all_paths) : Tree[all_paths[i]].is_dir
    /\ \E p \in VisiblePaths(args) \ CandidatePaths(args) :
          /\ PassesTypeFilters(p, args) /\ IsSome(outcome[p])
          /\ \A r \in Range(results) : r.score < outcome[p][1].score
    /\ ScoresOf(results) /=
          ScoresOf(truncate(sort_by_score(OtherExecutorList(1)), args.limit))

\* C28: with dirs_only and files_only both set every entry is rejected by
\* the type filters after it was counted, so nothing is ever accumulated or
\* returned by either executor.
C28_BothTypeFlagsRejectAll ==
    (executor \in {"seq", "par"} /\ args.dirs_only /\ args.files_only) =>
        /\ results = <<>> /\ Produced = {}
        /\ Scanned = 0
        /\ (executor = "seq" /\ running /\ pc \in {"final", "done"}
              /\ ~NoPattern)
               => scanned.files + scanned.dirs = Cardinality(VisiblePaths(args))
        /\ (executor = "par" /\ running /\ pc \in {"join", "final", "done"})
               => Processed = Len(all_paths)

\* an uncancelled sequential run with both flags set counted every visible
\* entry and returned nothing, although names in the tree match
C28_Witness ==
    /\ executor = "seq" /\ Returned /\ running
    /\ args.dirs_only /\ args.files_only
    /\ scanned.files >= 2 /\ scanned.dirs >= 1
    /\ results = <<>>
    /\ \E p \in VisiblePaths(args) : IsSome(FilenameScoreOf(p, args))

\* every result an uncancelled run had before the sort
BeforeSort ==
    IF executor = "seq" THEN Range(SeqAccumulated(1))
    ELSE {o[1] : o \in {x \in Range(task_out) : IsSome(x)}}

\* C30: in an uncancelled run the collection keeps the candidate order, and
\* the returned list has results of equal score in traversal order; a result
\* left out by the truncation scores below every one returned, or equals the
\* score of returned ones that all come before it in the traversal.
C30_TiesInTraversalOrder ==
    (executor \in {"seq", "par"} /\ running) =>
        /\ (executor = "par" /\ pc \in {"join", "final"}) =>
              \A i \in 1..(Len(results) - 1) : results[i].path < results[i + 1].path
        /\ Returned =>
              /\ \A i, j \in 1..Len(results) :
                    (i < j /\ results[i].score = results[j].score)
                        => results[i].path < results[j].path
              /\ Range(results) \subseteq BeforeSort
              /\ \A r \in BeforeSort \ Range(results) :
                    /\ Len(results) = args.limit
                    /\ \A k \in Range(results) :
                          \/ k.score > r.score
                          \/ k.score = r.score /\ k.path < r.path

\* an uncancelled parallel run returned the first of three results of equal
\* score and left out the two that come later in the traversal
C30_Witness ==
    /\ Returned /\ running /\ executor = "par" /\ results /= <<>>
    /\ \E r1, r2 \in BeforeSort \ Range(results) :
          /\ r1.path < r2.path
          /\ r1.score = results[Len(results)].score
          /\ r2.score = results[Len(results)].score
          /\ r1.path > results[Len(results)].path

\* ---------------------------------------------------------------------
\* search_file_content as a function of the file, the pattern and the mode
\* ---------------------------------------------------------------------

\* the files scanned: an overlapping occurrence, a line that holds the
\* pattern in another case and a line that holds it as a subsequence only,
\* a two-byte character before and at an occurrence, and an undecodable
\* second line
ScanFiles ==
    { [lines |-> << <<"a", "a", "a">> >>, open_ok |-> TRUE, bad_line |-> 0],
      [lines |-> << <<"x", "A", "a", "b">>, <<"a", "x", "a">> >>,
       open_ok |-> TRUE, bad_line |-> 0],
      [lines |-> << <<"e~", "a", "a">> >>, open_ok |-> TRUE, bad_line |-> 0],
      [lines |-> << <<"a", "e~">> >>, open_ok |-> TRUE, bad_line |-> 0],
      [lines |-> << <<"a", "a">>, <<"b">> >>, open_ok |-> TRUE, bad_line |-> 2] }

ScanPatterns == { <<"a", "a">>, <<"A">>, <<"e~">>, <<>> }

\* one call search_file_content(path, pattern, match_mode); the calls of one
\* behaviour are made on one file. scans keeps, for each line the call reads,
\* what the loop over that line does.
ContentCall ==
    /\ executor = "none" /\ Len(calls) < MaxCalls
    /\ \E file \in ScanFiles, pattern \in ScanPatterns,
          match_mode \in {"Fuzzy", "Exact"} :
          /\ \A k \in 1..Len(calls) : calls[k].file = file
          /\ calls' = Append(calls,
                 [file |-> file, pattern |-> pattern, match_mode |-> match_mode,
                  result |-> search_file_content(file, pattern, match_mode),
                  scans |-> [k \in 1..Len(Decodable(file)) |->
                                LineMatches(file.lines[k], pattern, match_mode,
                                            k - 1)]])
    /\ UNCHANGED <<call_inputs, previous, pc, handler, running, walker_pos,
                   current, results, scanned, all_paths, task, task_out,
                   counters, processing_complete, progress>>

ContentNext == ContentCall

ContentSpec == ScoreInit /\ [][ContentNext]_vars

\* the byte offsets at which the lower-cased pattern occurs in the
\* lower-cased line
Occurrences(line, pattern) ==
    LET bytes == Utf8(to_lowercase(line))
        p == Utf8(to_lowercase(pattern))
    IN  { i \in 0..Len(bytes) :
            i + Len(p) <= Len(bytes) /\ SubSeq(bytes, i + 1, i + Len(p)) = p }

\* the matches of a result that lie on line k (1-based)
MatchesOnLine(matches, k) ==
    LET OnLine(m) == m.line_number = k IN SelectSeq(matches, OnLine)

StartsIncrease(ms) ==
    \A i \in 1..Len(ms) - 1 : ms[i].match_start < ms[i + 1].match_start

Readable(file) == file.open_ok /\ file.bad_line = 0

\* C22: for a line that contains the lower-cased pattern, the call gives one
\* match per occurrence of the lower-cased pattern in the lower-cased line,
\* overlapping ones included, in increasing order of start: line_number is
\* the 1-based line, match_start the byte offset of the occurrence, and
\* match_end is match_start plus the byte length of the pattern as given.
C22_OneMatchPerOccurrence ==
    \A c \in Range(calls) :
        Readable(c.file) =>
            \A k \in 1..Len(c.file.lines) :
                Occurrences(c.file.lines[k], c.pattern) /= {} =>
                    LET ms == MatchesOnLine(c.result.matches, k)
                    IN  /\ c.result.ok
                        /\ StartsIncrease(ms)
                        /\ { ms[i].match_start : i \in 1..Len(ms) }
                               = Occurrences(c.file.lines[k], c.pattern)
                        /\ \A i \in 1..Len(ms) :
                              ms[i].match_end
                                  = ms[i].match_start + Len(Utf8(c.pattern))

\* a call on an ASCII line with overlapping occurrences, which the code
\* does report one by one
C22_Witness ==
    \E c \in Range(calls) :
        /\ c.file.lines = << <<"a", "a", "a">> >> /\ c.pattern = <<"a", "a">>
        /\ c.result.ok /\ Len(c.result.matches) = 2

\* C23: a call in Fuzzy mode returns the list the call in Exact mode returns
\* for the same file and pattern, and returns a match only when some line
\* holds the pattern as a case-insensitive substring.
C23_FuzzyContentSameAsExact ==
    /\ \A c, d \in Range(calls) :
          (c.file = d.file /\ c.pattern = d.pattern) => c.result = d.result
    /\ \A c \in Range(calls) :
          c.result.matches /= <<>> =>
              \E k \in 1..Len(c.file.lines) :
                  contains(to_lowercase(c.file.lines[k]), to_lowercase(c.pattern))

\* both modes called on a file with a line that holds the pattern only as a
\* subsequence, and a line that holds it as a substring
C23_Witness ==
    \E c, d \in Range(calls) :
        /\ c.match_mode = "Fuzzy" /\ d.match_mode = "Exact"
        /\ c.file = d.file /\ c.pattern = d.pattern /\ c.pattern /= <<>>
        /\ c.result.ok /\ c.result.matches /= <<>>
        /\ \E k \in 1..Len(c.file.lines) :
              /\ IsSome(fuzzy_match(c.file.lines[k], c.pattern, 1))
              /\ ~contains(to_lowercase(c.file.lines[k]), to_lowercase(c.pattern))

\* C29: for every line and every non-empty pattern the scan of the line
\* ends: each iteration slices the line at a cursor greater than the one
\* before, no cursor used to slice is beyond the length of the line, and the
\* line gets at most as many matches as it has bytes.
C29_ScanTerminates ==
    \A c \in Range(calls) :
        c.pattern /= <<>> =>
            \A k \in 1..Len(c.scans) :
                LET r == c.scans[k]
                    len == Len(Utf8(c.file.lines[k]))
                IN  /\ \A i \in 1..Len(r.cursors) - 1 :
                          r.cursors[i] < r.cursors[i + 1]
                    /\ \A i \in 1..Len(r.cursors) : r.cursors[i] <= len
                    /\ Len(r.cursors) <= len + 1
                    /\ Len(r.matches) <= len

\* a line scanned in three iterations, the last one slicing at the last byte
C29_Witness ==
    \E c \in Range(calls) :
        /\ c.pattern = <<"a", "a">> /\ Len(c.scans) = 1
        /\ c.scans[1].cursors = <<0, 1, 2>>
        /\ Len(c.scans[1].matches) = 2 /\ ~c.scans[1].panicked

====
